---- MODULE Spec2Model ----
(***************************************************************************)
(* State machine of the SHLD membership-token governance contract          *)
(* (src/src/lib.rs): the token map and holder set, the proposal map with   *)
(* per-proposal voter sets, and the operations mint, revoke_nft,           *)
(* create_proposal, vote and transfer.                                     *)
(*                                                                         *)
(* A NEAR contract call runs to completion; a panic (require!, expect,     *)
(* env::panic_str) aborts the call and none of its writes are committed.   *)
(* Each action below is one whole call.  For every operation an operator   *)
(* <operation>_check gives the outcome of the call in the current state:   *)
(* Ok, or the message of the first check of the code that panics.  A call  *)
(* whose outcome is not Ok leaves every variable as it is.                 *)
(***************************************************************************)
EXTENDS Integers, FiniteSets, Sequences, TLC

\* ------------------------------------------------------------------ bounds

\* Under Spec, create_proposal is explored while next_proposal_id < MaxProposals.
MaxProposals == 1

\* Under SpecSmall, with the accounts of SmallAccounts only, create_proposal is
\* explored while next_proposal_id < MaxProposalsSmall.
MaxProposalsSmall == 2
MaxMemberTitles == 1

\* ------------------------------------------------------------------ inputs

\* Account ids that call the contract or are named in its arguments.
Accounts == {"alice", "bob", "charlie"}

\* env::current_account_id(): the account the contract is deployed on.
current_account_id == "alice"

\* The accounts SpecSmall mints and calls with.
SmallAccounts == {"alice", "bob"}

Titles == {"Test Proposal"}
Descriptions == {"Test Description"}

\* Option<T>: a sequence of at most one value.
None == << >>
Some(value) == << value >>

\* Strings handed to the profile updates and to add_member_title.
NewValues == {"updated"}
MemberTitles == {"Founder"}

\* TokenMetadata values handed to mint (the struct of lib.rs:52-71).
MetaMember ==
    [ ticker_title |-> "SHLD", avatar_name |-> None, profile_description |-> None,
      governance_role |-> "Member", profile_image_url |-> None,
      cooperative_id |-> "coop-1", did |-> None, verification_status |-> "verified",
      minting_timestamp |-> 0, nft_number |-> 0, minting_round |-> 0,
      minting_order_in_round |-> 0, unique_hash |-> "coop-1-0",
      member_titles |-> << >> ]

MetaAdmin ==
    [ ticker_title |-> "SHLD", avatar_name |-> None, profile_description |-> None,
      governance_role |-> "Admin", profile_image_url |-> None,
      cooperative_id |-> "coop-2", did |-> None, verification_status |-> "verified",
      minting_timestamp |-> 0, nft_number |-> 0, minting_round |-> 0,
      minting_order_in_round |-> 0, unique_hash |-> "coop-2-0",
      member_titles |-> << >> ]

Metadatas == {MetaMember, MetaAdmin}

\* ------------------------------------------------------------------ state

VARIABLES
    tokens,                 \* LookupMap<AccountId, Token>: account -> Token or NoToken
    token_owners,           \* UnorderedSet<AccountId>
    proposals,              \* UnorderedMap<u64, Proposal>: a function on the stored ids
    proposals_keys,         \* the key vector of that map, in the order values() iterates
    next_proposal_id,       \* u64
    members_registry,       \* UnorderedSet<String> of cooperative ids
    next_nft_number,        \* u64
    current_minting_round,  \* u64
    minting_order_in_round  \* u64

vars == << tokens, token_owners, proposals, proposals_keys, next_proposal_id, members_registry,
           next_nft_number, current_minting_round, minting_order_in_round >>

\* Absence of a key in the tokens map.
NoToken == [owner_id |-> "none"]

\* ProposalStatus
Active == "Active"
Passed == "Passed"
Rejected == "Rejected"

\* ------------------------------------------------------------------ outcomes

\* The panic message of each failing check, under the name of its error kind.
Ok == "ok"
DuplicateTokenError == "Token already exists for this account"
TokenNotFoundError == "Token does not exist for this account"
UnauthorizedError == "Only the contract owner can revoke NFTs"
NotTokenHolderCreateError == "Only SHLD holders can create proposals"
NotTokenHolderVoteError == "Only SHLD holders can vote"
ProposalNotFoundError == "Proposal not found"
ProposalNotActiveError == "Proposal is not active"
AlreadyVotedError == "Account has already voted"
NonTransferableError == "SHLD tokens are non-transferable"

\* ------------------------------------------------------------------ NearToken

\* votes_for and votes_against are NearToken amounts.  from_near(n) stores
\* n * 10^24 yoctoNEAR and as_near() divides by 10^24; every amount the contract
\* builds is a whole number of NEAR, so an amount is kept here as that number.
\* saturating_add saturates at u128::MAX yoctoNEAR, beyond any count of voters.
from_near(n) == n
as_near(t) == t
saturating_add(a, b) == a + b

\* ------------------------------------------------------------------ Init

\* lib.rs:161-168.  new() sets next_proposal_id; the counters it does not
\* mention start at 0 like it.
Init ==
    /\ tokens = [a \in Accounts |-> NoToken]
    /\ token_owners = {}
    /\ proposals = [id \in {} |-> Active]
    /\ proposals_keys = << >>
    /\ next_proposal_id = 0
    /\ members_registry = {}
    /\ next_nft_number = 0
    /\ current_minting_round = 0
    /\ minting_order_in_round = 0

\* ------------------------------------------------------------------ mint

\* mint without its require!.
mint_check_none(account_id) == Ok

\* lib.rs:176
mint_check(account_id) ==
    IF tokens[account_id] # NoToken THEN DuplicateTokenError ELSE Ok

\* mint that stores every token with the role "Member".
mint_member_role(account_id, metadata) ==
    IF mint_check(account_id) # Ok
    THEN UNCHANGED vars
    ELSE /\ tokens' = [tokens EXCEPT ![account_id] =
                          [owner_id |-> account_id,
                           metadata |-> [metadata EXCEPT !.governance_role = "Member"]]]
         /\ token_owners' = token_owners \cup {account_id}
         /\ UNCHANGED << proposals, proposals_keys, next_proposal_id, members_registry,
                         next_nft_number,
                         current_minting_round, minting_order_in_round >>

\* lib.rs:175-185.  No caller check; the metadata is stored as supplied.
mint(account_id, metadata) ==
    IF mint_check(account_id) # Ok
    THEN UNCHANGED vars
    ELSE /\ tokens' = [tokens EXCEPT ![account_id] =
                          [owner_id |-> account_id, metadata |-> metadata]]
         /\ token_owners' = token_owners \cup {account_id}
         /\ UNCHANGED << proposals, proposals_keys, next_proposal_id, members_registry,
                         next_nft_number,
                         current_minting_round, minting_order_in_round >>

\* ------------------------------------------------------------------ queries

\* lib.rs:187-189
token_metadata(account_id) ==
    IF tokens[account_id] = NoToken THEN None
    ELSE Some(tokens[account_id].metadata)

\* lib.rs:195-197
governance_role(account_id) ==
    IF tokens[account_id] = NoToken THEN None
    ELSE Some(tokens[account_id].metadata.governance_role)

\* is_token_owner that takes every account for a holder.
is_token_owner_anyone(account_id) == TRUE

\* lib.rs:191-193
is_token_owner(account_id) == account_id \in token_owners

\* ------------------------------------------------------------------ create_proposal

\* lib.rs:206-215: the proposal a successful create_proposal stores.
new_proposal(proposal_id, title, description, account_id) ==
    [ id |-> proposal_id, title |-> title, description |-> description,
      proposer |-> account_id, votes_for |-> from_near(0), votes_against |-> from_near(0),
      voters |-> {}, status |-> Active ]

\* lib.rs:217: UnorderedMap::insert stores the value under the key, replacing
\* the value a stored key has.
insert(map, key, value) ==
    [k \in DOMAIN map \cup {key} |-> IF k = key THEN value ELSE map[k]]

\* lib.rs:217: UnorderedMap::insert appends a key that is new to the key vector
\* and leaves the place of a stored key.
insert_key(map, keys, key) ==
    IF key \in DOMAIN map THEN keys ELSE Append(keys, key)

\* lib.rs:201
create_proposal_check(account_id) ==
    IF ~is_token_owner(account_id) THEN NotTokenHolderCreateError ELSE Ok

\* lib.rs:203, 219: the id create_proposal returns when it succeeds.
create_proposal_result == next_proposal_id

\* create_proposal that does not advance next_proposal_id.
create_proposal_reuses_id(caller, title, description) ==
    IF create_proposal_check(caller) # Ok
    THEN UNCHANGED vars
    ELSE /\ proposals' = insert(proposals, next_proposal_id,
                                new_proposal(next_proposal_id, title, description, caller))
         /\ proposals_keys' = insert_key(proposals, proposals_keys, next_proposal_id)
         /\ UNCHANGED << tokens, token_owners, next_proposal_id, members_registry,
                         next_nft_number, current_minting_round,
                         minting_order_in_round >>

\* create_proposal that takes the next id before it checks the caller, and
\* keeps it taken when the check fails.
create_proposal_consumes_id(caller, title, description) ==
    IF create_proposal_check(caller) # Ok
    THEN /\ next_proposal_id' = next_proposal_id + 1
         /\ UNCHANGED << tokens, token_owners, proposals, proposals_keys,
                         members_registry, next_nft_number, current_minting_round,
                         minting_order_in_round >>
    ELSE /\ next_proposal_id' = next_proposal_id + 1
         /\ proposals' = insert(proposals, next_proposal_id,
                                new_proposal(next_proposal_id, title, description, caller))
         /\ proposals_keys' = insert_key(proposals, proposals_keys, next_proposal_id)
         /\ UNCHANGED << tokens, token_owners, members_registry, next_nft_number,
                         current_minting_round, minting_order_in_round >>

\* lib.rs:199-220
create_proposal(caller, title, description) ==
    IF create_proposal_check(caller) # Ok
    THEN UNCHANGED vars
    ELSE /\ next_proposal_id' = next_proposal_id + 1
         /\ proposals' = insert(proposals, next_proposal_id,
                                new_proposal(next_proposal_id, title, description, caller))
         /\ proposals_keys' = insert_key(proposals, proposals_keys, next_proposal_id)
         /\ UNCHANGED << tokens, token_owners, members_registry, next_nft_number,
                         current_minting_round, minting_order_in_round >>

\* lib.rs:137-147: the voter set is not part of the JSON value.
to_json_value(proposal) ==
    [ id |-> proposal.id, title |-> proposal.title,
      description |-> proposal.description, proposer |-> proposal.proposer,
      votes_for |-> as_near(proposal.votes_for),
      votes_against |-> as_near(proposal.votes_against),
      status |-> proposal.status ]

\* get_all_proposals that lists the latest proposal first.
get_all_proposals_reversed ==
    [i \in 1 .. Len(proposals_keys) |->
        to_json_value(proposals[proposals_keys[Len(proposals_keys) + 1 - i]])]

\* lib.rs:294-296: values() walks the map in the order of its key vector.
get_all_proposals ==
    [i \in 1 .. Len(proposals_keys) |-> to_json_value(proposals[proposals_keys[i]])]

\* ------------------------------------------------------------------ vote

\* vote_check that looks the proposal up before it checks the caller.
vote_check_found_first(account_id, proposal_id) ==
    IF proposal_id \notin DOMAIN proposals THEN ProposalNotFoundError
    ELSE IF ~is_token_owner(account_id) THEN NotTokenHolderVoteError
    ELSE IF proposals[proposal_id].status # Active THEN ProposalNotActiveError
    ELSE IF account_id \in proposals[proposal_id].voters THEN AlreadyVotedError
    ELSE Ok

\* vote_check without the check of the proposal's status.
vote_check_any_status(account_id, proposal_id) ==
    IF ~is_token_owner(account_id) THEN NotTokenHolderVoteError
    ELSE IF proposal_id \notin DOMAIN proposals THEN ProposalNotFoundError
    ELSE IF account_id \in proposals[proposal_id].voters THEN AlreadyVotedError
    ELSE Ok

\* vote_check without the check of the voter set.
vote_check_revote(account_id, proposal_id) ==
    IF ~is_token_owner(account_id) THEN NotTokenHolderVoteError
    ELSE IF proposal_id \notin DOMAIN proposals THEN ProposalNotFoundError
    ELSE IF proposals[proposal_id].status # Active THEN ProposalNotActiveError
    ELSE Ok

\* lib.rs:224-229 and 247-249: the checks of vote, in the order the code makes
\* them; the outcome is the first that fails, or Ok.
vote_check(account_id, proposal_id) ==
    IF ~is_token_owner(account_id) THEN NotTokenHolderVoteError
    ELSE IF proposal_id \notin DOMAIN proposals THEN ProposalNotFoundError
    ELSE IF proposals[proposal_id].status # Active THEN ProposalNotActiveError
    ELSE IF account_id \in proposals[proposal_id].voters THEN AlreadyVotedError
    ELSE Ok

\* cast that adds the vote to both counts.
cast_counts_both(proposal, account_id, v) ==
    [ proposal EXCEPT
        !.votes_for = saturating_add(@, from_near(1)),
        !.votes_against = saturating_add(@, from_near(1)),
        !.voters = @ \cup {account_id} ]

\* lib.rs:231-237: count the vote and record the voter.
cast(proposal, account_id, v) ==
    [ proposal EXCEPT
        !.votes_for = IF v THEN saturating_add(@, from_near(1)) ELSE @,
        !.votes_against = IF v THEN @ ELSE saturating_add(@, from_near(1)),
        !.voters = @ \cup {account_id} ]

\* quorum rounding half the holders up instead of floor + 1.
quorum_half_up(len) == (len + 1) \div 2

\* quorum without the + 1.
quorum_floor(len) == len \div 2

\* lib.rs:240: the votes needed, from token_owners.len().
quorum(len) == len \div 2 + 1

\* outcome with >= for >: a tie passes.
outcome_tie_passes(proposal) ==
    IF proposal.votes_for >= proposal.votes_against THEN Passed ELSE Rejected

\* lib.rs:241-245: the status a proposal that reached the quorum takes.
outcome(proposal) ==
    IF proposal.votes_for > proposal.votes_against THEN Passed ELSE Rejected

\* resolve with > for >=: one vote more than the quorum is needed.
resolve_strict(proposal, len) ==
    LET total_votes == as_near(proposal.votes_for) + as_near(proposal.votes_against)
    IN  IF total_votes > quorum(len)
        THEN [proposal EXCEPT !.status = outcome(proposal)]
        ELSE proposal

\* lib.rs:239-246: the quorum check made after the vote is counted.
resolve(proposal, len) ==
    LET total_votes == as_near(proposal.votes_for) + as_near(proposal.votes_against)
    IN  IF total_votes >= quorum(len)
        THEN [proposal EXCEPT !.status = outcome(proposal)]
        ELSE proposal

\* lib.rs:222-250
vote(caller, proposal_id, v) ==
    IF vote_check(caller, proposal_id) # Ok
    THEN UNCHANGED vars
    ELSE /\ proposals' = [proposals EXCEPT ![proposal_id] =
                             resolve(cast(@, caller, v), Cardinality(token_owners))]
         /\ UNCHANGED << tokens, token_owners, proposals_keys, next_proposal_id,
                         members_registry,
                         next_nft_number, current_minting_round,
                         minting_order_in_round >>

\* ------------------------------------------------------------------ revoke_nft

\* revoke_nft_check that looks the token up before it checks the caller.
revoke_nft_check_lookup_first(caller, account_id) ==
    IF tokens[account_id] = NoToken THEN TokenNotFoundError
    ELSE IF caller # current_account_id THEN UnauthorizedError
    ELSE Ok

\* lib.rs:114-116: the caller check comes first, then the lookup of the token.
revoke_nft_check(caller, account_id) ==
    IF caller # current_account_id THEN UnauthorizedError
    ELSE IF tokens[account_id] = NoToken THEN TokenNotFoundError
    ELSE Ok

\* revoke_nft that also re-evaluates the Active proposals against the new
\* holder count.
revoke_nft_reevaluate(caller, account_id) ==
    IF revoke_nft_check(caller, account_id) # Ok
    THEN UNCHANGED vars
    ELSE /\ tokens' = [tokens EXCEPT ![account_id] = NoToken]
         /\ token_owners' = token_owners \ {account_id}
         /\ members_registry' =
                members_registry \ {tokens[account_id].metadata.cooperative_id}
         /\ proposals' = [id \in DOMAIN proposals |->
                             IF proposals[id].status = Active
                             THEN resolve(proposals[id],
                                          Cardinality(token_owners \ {account_id}))
                             ELSE proposals[id]]
         /\ UNCHANGED << proposals_keys, next_proposal_id, next_nft_number,
                         current_minting_round, minting_order_in_round >>

\* revoke_nft that also takes the account out of the voter sets of the Active
\* proposals.
revoke_nft_forgets_voter(caller, account_id) ==
    IF revoke_nft_check(caller, account_id) # Ok
    THEN UNCHANGED vars
    ELSE /\ tokens' = [tokens EXCEPT ![account_id] = NoToken]
         /\ token_owners' = token_owners \ {account_id}
         /\ members_registry' =
                members_registry \ {tokens[account_id].metadata.cooperative_id}
         /\ proposals' =
                [id \in DOMAIN proposals |->
                    IF proposals[id].status = Active
                    THEN [proposals[id] EXCEPT !.voters = @ \ {account_id}]
                    ELSE proposals[id]]
         /\ UNCHANGED << proposals_keys, next_proposal_id, next_nft_number,
                         current_minting_round, minting_order_in_round >>

\* revoke_nft that leaves the account in token_owners.
revoke_nft_keeps_owner(caller, account_id) ==
    IF revoke_nft_check(caller, account_id) # Ok
    THEN UNCHANGED vars
    ELSE /\ tokens' = [tokens EXCEPT ![account_id] = NoToken]
         /\ members_registry' =
                members_registry \ {tokens[account_id].metadata.cooperative_id}
         /\ UNCHANGED << token_owners, proposals, proposals_keys, next_proposal_id,
                         next_nft_number, current_minting_round,
                         minting_order_in_round >>

\* lib.rs:113-119
revoke_nft(caller, account_id) ==
    IF revoke_nft_check(caller, account_id) # Ok
    THEN UNCHANGED vars
    ELSE /\ tokens' = [tokens EXCEPT ![account_id] = NoToken]
         /\ token_owners' = token_owners \ {account_id}
         /\ members_registry' =
                members_registry \ {tokens[account_id].metadata.cooperative_id}
         /\ UNCHANGED << proposals, proposals_keys, next_proposal_id, next_nft_number,
                         current_minting_round, minting_order_in_round >>

\* ------------------------------------------------------------------ profile

\* lib.rs:77, 84, 91, 98, 105: the token is looked up with expect.
update_check(account_id) ==
    IF tokens[account_id] = NoToken THEN TokenNotFoundError ELSE Ok

\* lib.rs:77-79 and alike: read the token, set one field of its metadata, and
\* insert it under the account again.
update_field(account_id, field, value) ==
    IF update_check(account_id) # Ok
    THEN UNCHANGED vars
    ELSE /\ tokens' = [tokens EXCEPT ![account_id].metadata[field] = value]
         /\ UNCHANGED << token_owners, proposals, proposals_keys, next_proposal_id,
                         members_registry, next_nft_number, current_minting_round,
                         minting_order_in_round >>

\* lib.rs:76-80
update_avatar_name(account_id, new_avatar_name) ==
    update_field(account_id, "avatar_name", Some(new_avatar_name))

\* lib.rs:83-87
update_profile_description(account_id, new_description) ==
    update_field(account_id, "profile_description", Some(new_description))

\* update_profile_image_url that writes the field of update_profile_description.
update_profile_image_url_description(account_id, new_image_url) ==
    update_field(account_id, "profile_description", Some(new_image_url))

\* lib.rs:90-94
update_profile_image_url(account_id, new_image_url) ==
    update_field(account_id, "profile_image_url", Some(new_image_url))

\* lib.rs:97-101
update_did(account_id, new_did) ==
    update_field(account_id, "did", Some(new_did))

\* lib.rs:104-108
add_member_title(account_id, new_title) ==
    IF update_check(account_id) # Ok
    THEN UNCHANGED vars
    ELSE update_field(account_id, "member_titles",
                      Append(tokens[account_id].metadata.member_titles, new_title))

\* ------------------------------------------------------------------ transfer

\* lib.rs:314
transfer_check(from, to) == NonTransferableError

\* transfer that hands the token of from over to an account without one.
transfer_moves(from, to) ==
    IF tokens[from] # NoToken /\ tokens[to] = NoToken
    THEN /\ tokens' = [tokens EXCEPT ![from] = NoToken,
                                     ![to] = [owner_id |-> to,
                                              metadata |-> tokens[from].metadata]]
         /\ token_owners' = (token_owners \ {from}) \cup {to}
         /\ UNCHANGED << proposals, proposals_keys, next_proposal_id, members_registry,
                         next_nft_number, current_minting_round,
                         minting_order_in_round >>
    ELSE UNCHANGED vars

\* lib.rs:313-315
transfer(from, to) ==
    IF transfer_check(from, to) # Ok
    THEN UNCHANGED vars
    ELSE FALSE

\* ------------------------------------------------------------------ Next

\* Proposal ids a caller may name: the ids that can exist and one that never does.
ProposalIds == 0 .. MaxProposals

Next ==
    \/ \E account_id \in Accounts, metadata \in Metadatas : mint(account_id, metadata)
    \/ \E caller \in Accounts, account_id \in Accounts : revoke_nft(caller, account_id)
    \/ \E caller \in Accounts, title \in Titles, description \in Descriptions :
           /\ next_proposal_id < MaxProposals
           /\ create_proposal(caller, title, description)
    \/ \E caller \in Accounts, proposal_id \in ProposalIds, v \in BOOLEAN :
           vote(caller, proposal_id, v)
    \/ \E from \in Accounts, to \in Accounts : transfer(from, to)

Spec == Init /\ [][Next]_vars

\* The same calls with fewer accounts and more proposals.
ProposalIdsSmall == 0 .. MaxProposalsSmall

NextSmall ==
    \/ \E account_id \in SmallAccounts, metadata \in Metadatas :
           mint(account_id, metadata)
    \/ \E caller \in SmallAccounts, account_id \in SmallAccounts :
           revoke_nft(caller, account_id)
    \/ \E caller \in SmallAccounts, title \in Titles, description \in Descriptions :
           /\ next_proposal_id < MaxProposalsSmall
           /\ create_proposal(caller, title, description)
    \/ \E caller \in SmallAccounts, proposal_id \in ProposalIdsSmall, v \in BOOLEAN :
           vote(caller, proposal_id, v)
    \/ \E from \in SmallAccounts, to \in SmallAccounts : transfer(from, to)

SpecSmall == Init /\ [][NextSmall]_vars

\* The membership calls, create_proposal and the profile updates.
NextProfile ==
    \/ \E account_id \in SmallAccounts, metadata \in Metadatas :
           mint(account_id, metadata)
    \/ \E caller \in SmallAccounts, account_id \in SmallAccounts :
           revoke_nft(caller, account_id)
    \/ \E caller \in SmallAccounts, title \in Titles, description \in Descriptions :
           /\ next_proposal_id < MaxProposals
           /\ create_proposal(caller, title, description)
    \/ \E account_id \in SmallAccounts, value \in NewValues :
           update_avatar_name(account_id, value)
    \/ \E account_id \in SmallAccounts, value \in NewValues :
           update_profile_description(account_id, value)
    \/ \E account_id \in SmallAccounts, value \in NewValues :
           update_profile_image_url(account_id, value)
    \/ \E account_id \in SmallAccounts, value \in NewValues :
           update_did(account_id, value)
    \/ \E account_id \in SmallAccounts, new_title \in MemberTitles :
           /\ tokens[account_id] # NoToken =>
                  Len(tokens[account_id].metadata.member_titles) < MaxMemberTitles
           /\ add_member_title(account_id, new_title)

SpecProfile == Init /\ [][NextProfile]_vars

\* ------------------------------------------------------------------ properties

\* token_owners.len(): the number of live holders.
Holders == Cardinality(token_owners)

TotalVotes(proposal) == proposal.votes_for + proposal.votes_against

\* The step is the call vote(proposal_id, v) by caller, and it is accepted.
VoteAccepted(caller, proposal_id, v) ==
    /\ vote_check(caller, proposal_id) = Ok
    /\ vote(caller, proposal_id, v)

\* C1: once a proposal's status has left Active, every vote on it by any
\* account is refused, and no step changes its votes_for, votes_against, voter
\* set or status: it stays stored as it is.
C1_ResolvedIsFinal ==
    /\ [](\A id \in DOMAIN proposals : \A c \in Accounts :
             proposals[id].status # Active => vote_check(c, id) # Ok)
    /\ [][\A id \in DOMAIN proposals :
             proposals[id].status # Active =>
                 /\ id \in DOMAIN proposals'
                 /\ proposals'[id] = proposals[id]]_vars

\* A proposal is resolved while a holder has not voted on it: that holder's
\* vote is the later vote the claim is about.
C1_Witness ==
    \E id \in DOMAIN proposals : \E c \in token_owners :
        /\ proposals[id].status \in {Passed, Rejected}
        /\ c \notin proposals[id].voters
        /\ vote_check(c, id) = ProposalNotActiveError

C4_DuplicateMint ==
    /\ [](\A a \in Accounts :
             /\ Cardinality({k \in Accounts :
                                tokens[k] # NoToken /\ tokens[k].owner_id = a}) <= 1
             /\ tokens[a] # NoToken => mint_check(a) = DuplicateTokenError)
    /\ [][\A a \in Accounts : \A m \in Metadatas :
             (tokens[a] # NoToken /\ mint(a, m)) => UNCHANGED vars]_vars

\* An account holds a token minted with one metadata; a mint with the other
\* metadata is the duplicate mint.
C4_Witness ==
    \E a \in Accounts :
        /\ tokens[a] # NoToken
        /\ a \in token_owners
        /\ tokens[a].metadata = MetaMember
        /\ mint_check(a) = DuplicateTokenError

C6_ThirdVoteCounts ==
    \A c \in Accounts : \A id \in DOMAIN proposals :
        (/\ Holders = 3
         /\ c \in token_owners
         /\ c \notin proposals[id].voters
         /\ proposals[id].votes_for = 2
         /\ proposals[id].votes_against = 0) =>
            vote_check(c, id) = Ok

C8_SingleVoteStaysActive ==
    [][\A c \in Accounts : \A id \in DOMAIN proposals :
          (/\ token_owners = {c}
           /\ proposals[id].proposer = c
           /\ proposals[id].voters = {}
           /\ VoteAccepted(c, id, TRUE)) =>
              /\ proposals'[id].votes_for = 1
              /\ proposals'[id].votes_against = 0
              /\ proposals'[id].status = Active]_vars

\* C9: every Passed proposal has votes_for > votes_against and every Rejected
\* proposal has votes_for <= votes_against.
C9_OutcomeMatchesCounts ==
    \A id \in DOMAIN proposals :
        /\ proposals[id].status = Passed =>
               proposals[id].votes_for > proposals[id].votes_against
        /\ proposals[id].status = Rejected =>
               proposals[id].votes_for <= proposals[id].votes_against

\* With exactly 2 holders, one voted true and the other false: Rejected on 1/1.
C9_Witness ==
    \E id \in DOMAIN proposals :
        /\ Holders = 2
        /\ proposals[id].voters = token_owners
        /\ proposals[id].votes_for = 1
        /\ proposals[id].votes_against = 1
        /\ proposals[id].status = Rejected

\* C10: a mint or revoke_nft call changes no proposal.
C10_MembershipLeavesProposals ==
    [][\A c \in Accounts : \A a \in Accounts : \A m \in Metadatas :
          (mint(a, m) \/ revoke_nft(c, a)) => proposals' = proposals]_vars

\* Revokes brought the quorum down to the votes an Active proposal already
\* has, and the proposal is still Active.
C10_Witness ==
    \E id \in DOMAIN proposals :
        /\ proposals[id].status = Active
        /\ TotalVotes(proposals[id]) >= (Holders \div 2) + 1

\* C11 as stated: the sequence numbers (nft_number) of the tokens mint has
\* stored are pairwise different.
C11_SequenceNumbersUnique ==
    \A a \in Accounts : \A b \in Accounts :
        (a # b /\ tokens[a] # NoToken /\ tokens[b] # NoToken) =>
            tokens[a].metadata.nft_number # tokens[b].metadata.nft_number

\* C12: revoke_nft by a caller other than the contract account fails with
\* UnauthorizedError, whether or not the target account holds a token, and
\* changes nothing.
C12_RevokeUnauthorized ==
    /\ [](\A c \in Accounts \ {current_account_id} : \A a \in Accounts :
             revoke_nft_check(c, a) = UnauthorizedError)
    /\ [][\A c \in Accounts \ {current_account_id} : \A a \in Accounts :
             revoke_nft(c, a) => UNCHANGED vars]_vars

\* One account holds a token and another does not: a caller that is not the
\* contract account is refused for both targets.
C12_Witness ==
    \E c \in Accounts \ {current_account_id} : \E a \in Accounts : \E b \in Accounts :
        /\ tokens[a] # NoToken
        /\ tokens[b] = NoToken
        /\ revoke_nft_check(c, a) = UnauthorizedError
        /\ revoke_nft_check(c, b) = UnauthorizedError

\* C13: create_proposal and vote fail with NotTokenHolderError, and change
\* nothing, exactly when the caller has no token at the call (a caller whose
\* token was revoked included); a caller with a token is not refused for that.
C13_HoldersOnly ==
    /\ [](\A c \in Accounts :
             IF tokens[c] = NoToken
             THEN /\ create_proposal_check(c) = NotTokenHolderCreateError
                  /\ \A id \in ProposalIds : vote_check(c, id) = NotTokenHolderVoteError
             ELSE /\ create_proposal_check(c) = Ok
                  /\ \A id \in ProposalIds : vote_check(c, id) # NotTokenHolderVoteError)
    /\ [][\A c \in Accounts : \A id \in ProposalIds : \A v \in BOOLEAN :
          \A t \in Titles : \A d \in Descriptions :
             (tokens[c] = NoToken /\ (create_proposal(c, t, d) \/ vote(c, id, v))) =>
                 UNCHANGED vars]_vars

\* An account that created or voted on a proposal has no token any more: it is
\* refused now.
C13_Witness ==
    \E c \in Accounts : \E id \in DOMAIN proposals :
        /\ tokens[c] = NoToken
        /\ (proposals[id].proposer = c \/ c \in proposals[id].voters)
        /\ create_proposal_check(c) = NotTokenHolderCreateError
        /\ vote_check(c, id) = NotTokenHolderVoteError

\* C14: transfer fails with NonTransferableError for every pair of accounts in
\* every state and changes nothing; no step hands the token of one account over
\* to another.
C14_NonTransferable ==
    /\ [](\A f \in Accounts : \A t \in Accounts :
             transfer_check(f, t) = NonTransferableError)
    /\ [][\A f \in Accounts : \A t \in Accounts :
             /\ transfer(f, t) => UNCHANGED vars
             /\ f # t =>
                    ~ (/\ tokens[f] # NoToken /\ tokens'[f] = NoToken
                       /\ tokens[t] = NoToken /\ tokens'[t] # NoToken)]_vars

\* One account holds a token and another does not: a transfer between them
\* would have something to move.
C14_Witness ==
    \E f \in Accounts : \E t \in Accounts :
        /\ tokens[f] # NoToken
        /\ tokens[t] = NoToken
        /\ transfer_check(f, t) = NonTransferableError

\* C15: a call that fails changes nothing: a step that changes the state is
\* not a rejected vote or a rejected create_proposal.  A proposal changes only
\* by the vote of a holder that is not in its voter set while it is Active; a
\* proposal id is consumed only together with the storing of a proposal of a
\* holder.
C15_FailedCallsChangeNothing ==
    [][\/ UNCHANGED vars
       \/ /\ \A c \in Accounts : \A id \in ProposalIds : \A v \in BOOLEAN :
                ~ (vote_check(c, id) # Ok /\ vote(c, id, v))
          /\ \A c \in Accounts : \A t \in Titles : \A d \in Descriptions :
                ~ (create_proposal_check(c) # Ok /\ create_proposal(c, t, d))
          /\ \A id \in DOMAIN proposals :
                (id \in DOMAIN proposals' /\ proposals'[id] # proposals[id]) =>
                    \E c \in token_owners :
                       /\ proposals[id].status = Active
                       /\ c \notin proposals[id].voters
                       /\ proposals'[id].voters = proposals[id].voters \cup {c}
          /\ next_proposal_id' # next_proposal_id =>
                /\ next_proposal_id' = next_proposal_id + 1
                /\ next_proposal_id \notin DOMAIN proposals
                /\ next_proposal_id \in DOMAIN proposals'
                /\ proposals'[next_proposal_id].proposer \in token_owners]_vars

\* An account without a token, and a holder that has voted on a stored
\* proposal: their create_proposal and vote calls are refused.
C15_Witness ==
    \E c \in Accounts : \E h \in token_owners : \E id \in DOMAIN proposals :
        /\ tokens[c] = NoToken
        /\ create_proposal_check(c) # Ok
        /\ vote_check(c, id) = NotTokenHolderVoteError
        /\ h \in proposals[id].voters
        /\ vote_check(h, id) \in {AlreadyVotedError, ProposalNotActiveError}
        /\ vote_check(h, MaxProposals) = ProposalNotFoundError

\* C16: proposal ids are sequential from 0 and never reused: the stored ids are
\* exactly 0 .. next_proposal_id - 1 in every state, no proposal is ever deleted,
\* a successful create_proposal returns the number of proposals created before
\* it and stores under that id an Active proposal with no votes, no voters and
\* the caller as proposer, leaving the stored proposals as they are.
C16_SequentialIds ==
    /\ [](/\ DOMAIN proposals = 0 .. (next_proposal_id - 1)
          /\ \A id \in DOMAIN proposals : proposals[id].id = id)
    /\ [][/\ DOMAIN proposals \subseteq DOMAIN proposals'
          /\ \A c \in Accounts : \A t \in Titles : \A d \in Descriptions :
                (create_proposal_check(c) = Ok /\ create_proposal(c, t, d)) =>
                    /\ create_proposal_result = Cardinality(DOMAIN proposals)
                    /\ create_proposal_result \notin DOMAIN proposals
                    /\ DOMAIN proposals' = DOMAIN proposals \cup {create_proposal_result}
                    /\ proposals'[create_proposal_result] =
                           [ id |-> create_proposal_result, title |-> t,
                             description |-> d, proposer |-> c, votes_for |-> 0,
                             votes_against |-> 0, voters |-> {}, status |-> Active ]
                    /\ \A id \in DOMAIN proposals : proposals'[id] = proposals[id]
                    /\ create_proposal_result' = create_proposal_result + 1]_vars

\* Two proposals were created, the first has been voted on since, and the
\* second is as it was created.
C16_Witness ==
    /\ next_proposal_id = 2
    /\ DOMAIN proposals = {0, 1}
    /\ proposals[0].voters # {}
    /\ proposals[1].voters = {}
    /\ proposals[1].status = Active

\* C17: get_all_proposals lists every stored proposal exactly once, by
\* ascending id; a successful create_proposal appends its proposal to the list;
\* the list is empty as long as no proposal was created.
C17_AllProposalsInOrder ==
    /\ [](/\ Len(get_all_proposals) = Cardinality(DOMAIN proposals)
          /\ \A i \in 1 .. Len(get_all_proposals) :
                /\ (i - 1) \in DOMAIN proposals
                /\ get_all_proposals[i] = to_json_value(proposals[i - 1])
                /\ get_all_proposals[i].id = i - 1
          /\ (next_proposal_id = 0 => get_all_proposals = << >>))
    /\ [][\A c \in Accounts : \A t \in Titles : \A d \in Descriptions :
             (create_proposal_check(c) = Ok /\ create_proposal(c, t, d)) =>
                 get_all_proposals' =
                     Append(get_all_proposals,
                            to_json_value(new_proposal(next_proposal_id, t, d, c)))]_vars

\* Two proposals are listed; the first has resolved and the proposer of the
\* second has lost its token since.
C17_Witness ==
    /\ Len(get_all_proposals) = 2
    /\ get_all_proposals[1].status # Active
    /\ get_all_proposals[2].status = Active
    /\ get_all_proposals[2].proposer \notin token_owners

\* C18: after a successful mint the account is a holder, token_metadata returns
\* the metadata supplied, governance_role returns the role in that metadata, and
\* there is exactly one more holder.
C18_MintThenQueries ==
    [][\A a \in Accounts : \A m \in Metadatas :
          (mint_check(a) = Ok /\ mint(a, m)) =>
              /\ ~ is_token_owner(a)
              /\ is_token_owner(a)'
              /\ token_metadata(a)' = Some(m)
              /\ governance_role(a)' = Some(m.governance_role)
              /\ Holders' = Holders + 1]_vars

\* Tokens of both roles are held, each read back with the role it was minted
\* with.
C18_Witness ==
    \E a \in Accounts : \E b \in Accounts :
        /\ is_token_owner(a) /\ is_token_owner(b)
        /\ token_metadata(a) = Some(MetaAdmin)
        /\ governance_role(a) = Some("Admin")
        /\ token_metadata(b) = Some(MetaMember)
        /\ governance_role(b) = Some("Member")

\* C19: vote reports the first failing check in the order holder, proposal
\* exists, proposal Active, not yet voted: each outcome means that the checks
\* before it passed and its own failed.
C19_VoteCheckOrder ==
    \A c \in Accounts : \A id \in ProposalIds :
        /\ c \notin token_owners => vote_check(c, id) = NotTokenHolderVoteError
        /\ (c \in token_owners /\ id \notin DOMAIN proposals) =>
               vote_check(c, id) = ProposalNotFoundError
        /\ (c \in token_owners /\ id \in DOMAIN proposals) =>
               /\ proposals[id].status # Active =>
                      vote_check(c, id) = ProposalNotActiveError
               /\ (proposals[id].status = Active /\ c \in proposals[id].voters) =>
                      vote_check(c, id) = AlreadyVotedError
               /\ (proposals[id].status = Active /\ c \notin proposals[id].voters) =>
                      vote_check(c, id) = Ok

\* An account without a token and an id that is not stored; a holder that has
\* voted on a proposal that has resolved.
C19_Witness ==
    /\ \E c \in Accounts : \E id \in ProposalIds :
          /\ c \notin token_owners
          /\ id \notin DOMAIN proposals
          /\ vote_check(c, id) = NotTokenHolderVoteError
    /\ \E h \in token_owners : \E id \in DOMAIN proposals :
          /\ h \in proposals[id].voters
          /\ proposals[id].status # Active
          /\ vote_check(h, id) = ProposalNotActiveError

\* C20: the holder set is the set of accounts with a token in every state; a
\* revoke_nft by the contract account for an account without a token fails with
\* NotFoundError and changes nothing; a successful one removes that account's
\* token and holder entry and leaves every other token as it is.
C20_RevokeRemovesOne ==
    /\ [](/\ token_owners = {a \in Accounts : tokens[a] # NoToken}
          /\ \A a \in Accounts : is_token_owner(a) <=> token_metadata(a) # None
          /\ \A a \in Accounts :
                tokens[a] = NoToken =>
                    revoke_nft_check(current_account_id, a) = TokenNotFoundError)
    /\ [][\A a \in Accounts :
             revoke_nft(current_account_id, a) =>
                 IF revoke_nft_check(current_account_id, a) = Ok
                 THEN /\ tokens'[a] = NoToken
                      /\ token_owners' = token_owners \ {a}
                      /\ Holders' = Holders - 1
                      /\ \A b \in Accounts \ {a} : tokens'[b] = tokens[b]
                 ELSE UNCHANGED vars]_vars

\* The proposer of a stored proposal has no token any more while another
\* account still holds one: a revoke has removed one token and left the other.
C20_Witness ==
    \E a \in Accounts : \E b \in Accounts : \E id \in DOMAIN proposals :
        /\ proposals[id].proposer = a
        /\ tokens[a] = NoToken
        /\ a \notin token_owners
        /\ tokens[b] # NoToken
        /\ b \in token_owners
        /\ revoke_nft_check(current_account_id, a) = TokenNotFoundError

\* The step leaves everything but the named metadata field of the token of
\* account a as it is.
OnlyFieldChanges(a, field) ==
    /\ tokens'[a] # NoToken
    /\ tokens'[a].owner_id = tokens[a].owner_id
    /\ DOMAIN tokens'[a].metadata = DOMAIN tokens[a].metadata
    /\ \A g \in DOMAIN tokens[a].metadata \ {field} :
          tokens'[a].metadata[g] = tokens[a].metadata[g]
    /\ \A b \in Accounts \ {a} : tokens'[b] = tokens[b]
    /\ token_owners' = token_owners
    /\ proposals' = proposals
    /\ proposals_keys' = proposals_keys
    /\ next_proposal_id' = next_proposal_id
    /\ members_registry' = members_registry

C22_CountsMatchVoters ==
    /\ [](\A id \in DOMAIN proposals :
             TotalVotes(proposals[id]) = Cardinality(proposals[id].voters))
    /\ [][\A c \in Accounts : \A id \in ProposalIds : \A v \in BOOLEAN :
             VoteAccepted(c, id, v) =>
                 /\ c \notin proposals[id].voters
                 /\ proposals'[id].voters = proposals[id].voters \cup {c}
                 /\ proposals'[id].votes_for =
                        proposals[id].votes_for + (IF v THEN 1 ELSE 0)
                 /\ proposals'[id].votes_against =
                        proposals[id].votes_against + (IF v THEN 0 ELSE 1)]_vars

\* A proposal has votes on both sides.
C22_Witness ==
    \E id \in DOMAIN proposals :
        /\ proposals[id].votes_for >= 1
        /\ proposals[id].votes_against >= 1
        /\ Cardinality(proposals[id].voters) >= 2

\* C23: an account votes at most once on a proposal, whatever happens to its
\* token: an account in the voter set is refused, whether or not it holds a
\* token; no step takes an account out of a voter set or a vote out of a count;
\* and the quorum at an accepted vote counts the votes of all voters, revoked
\* ones included.
C23_OneVotePerAccount ==
    /\ [](\A c \in Accounts : \A id \in DOMAIN proposals :
             c \in proposals[id].voters => vote_check(c, id) # Ok)
    /\ [][\A id \in DOMAIN proposals :
             /\ id \in DOMAIN proposals'
             /\ proposals[id].voters \subseteq proposals'[id].voters
             /\ Cardinality(proposals'[id].voters) <=
                    Cardinality(proposals[id].voters) + 1
             /\ proposals[id].votes_for <= proposals'[id].votes_for
             /\ proposals[id].votes_against <= proposals'[id].votes_against]_vars
    /\ [][\A c \in Accounts : \A id \in ProposalIds : \A v \in BOOLEAN :
             VoteAccepted(c, id, v) =>
                 (proposals'[id].status # Active <=>
                     Cardinality(proposals[id].voters \cup {c}) >=
                         (Holders \div 2) + 1)]_vars

\* A holder is in the voter set of an Active proposal with its vote counted and
\* is refused: the state of a voter whose token was revoked and minted again.
C23_Witness ==
    \E id \in DOMAIN proposals : \E c \in token_owners :
        /\ proposals[id].status = Active
        /\ proposals[id].voters = {c}
        /\ TotalVotes(proposals[id]) = 1
        /\ token_metadata(c) = Some(MetaAdmin)
        /\ vote_check(c, id) = AlreadyVotedError

\* C24 as stated: while there is a holder, an Active proposal has a holder that
\* is not in its voter set.
C24_ActiveHasFreeHolder ==
    \A id \in DOMAIN proposals :
        (Holders >= 1 /\ proposals[id].status = Active) =>
            \E h \in token_owners : h \notin proposals[id].voters

====
